---------------------------- MODULE Spec2Model ----------------------------
(***************************************************************************)
(* unit_to_srv.py: conversion of a systemd unit file into a dinit service. *)
(*                                                                         *)
(* Representation.  A Python string is a sequence of characters, each      *)
(* character a one-letter TLA+ string: "Type" is <<"T","y","p","e">>.      *)
(* The text written to a file is kept as the sequence of write() calls;    *)
(* one call is the sequence made of the literal text of its f-string (one  *)
(* element, e.g. "waits-for = "), the characters of the interpolated       *)
(* value, and "\n".  The Greek letter of the first tag of line 119 is the  *)
(* single element Mu.                                                      *)
(*                                                                         *)
(* Not tracked: the text of warning() and of the prints guarded by         *)
(* args.quiet (lines 83-85, 310-315); they go to the terminal only and no  *)
(* statement of the program reads them back.  The unguarded prints are     *)
(* kept in stdout.                                                         *)
(***************************************************************************)
EXTENDS Integers, Sequences, FiniteSets, TLC

\* Key names, as the character sequences the dispatch at lines 184-317 compares
\* val[0] with.
k_Documentation == <<"D","o","c","u","m","e","n","t","a","t","i","o","n">>
k_Type == <<"T","y","p","e">>
k_Description == <<"D","e","s","c","r","i","p","t","i","o","n">>
k_Wants == <<"W","a","n","t","s">>
k_Requires == <<"R","e","q","u","i","r","e","s">>
k_Requisite == <<"R","e","q","u","i","s","i","t","e">>
k_BindsTo == <<"B","i","n","d","s","T","o">>
k_PartOf == <<"P","a","r","t","O","f">>
k_Upholds == <<"U","p","h","o","l","d","s">>
k_Before == <<"B","e","f","o","r","e">>
k_After == <<"A","f","t","e","r">>
k_OnSuccess == <<"O","n","S","u","c","c","e","s","s">>
k_StartLimitBurst == <<"S","t","a","r","t","L","i","m","i","t","B","u","r","s","t">>
k_StartLimitIntervalSec == <<"S","t","a","r","t","L","i","m","i","t","I","n","t","e","r","v","a","l","S","e","c">>
k_Alias == <<"A","l","i","a","s">>
k_WantedBy == <<"W","a","n","t","e","d","B","y">>
k_RequiredBy == <<"R","e","q","u","i","r","e","d","B","y">>
k_UpheldBy == <<"U","p","h","e","l","d","B","y">>
k_PIDFile == <<"P","I","D","F","i","l","e">>
k_ExecStart == <<"E","x","e","c","S","t","a","r","t">>
k_ExecStop == <<"E","x","e","c","S","t","o","p">>
k_TimeoutStartSec == <<"T","i","m","e","o","u","t","S","t","a","r","t","S","e","c">>
k_TimeoutStopSec == <<"T","i","m","e","o","u","t","S","t","o","p","S","e","c">>
k_TimeoutSec == <<"T","i","m","e","o","u","t","S","e","c">>
k_Restart == <<"R","e","s","t","a","r","t">>
k_EnvironmentFile == <<"E","n","v","i","r","o","n","m","e","n","t","F","i","l","e">>
k_User == <<"U","s","e","r">>
k_Group == <<"G","r","o","u","p">>
k_WorkingDirectory == <<"W","o","r","k","i","n","g","D","i","r","e","c","t","o","r","y">>
k_LimitCORE == <<"L","i","m","i","t","C","O","R","E">>
k_LimitDATA == <<"L","i","m","i","t","D","A","T","A">>
k_LimitNOFILE == <<"L","i","m","i","t","N","O","F","I","L","E">>
k_UtmpIdentifier == <<"U","t","m","p","I","d","e","n","t","i","f","i","e","r">>
k_KillSignal == <<"K","i","l","l","S","i","g","n","a","l">>
k_UpHolds == <<"U","p","H","o","l","d","s">>

\* Values the Type rule matches.
v_simple == <<"s","i","m","p","l","e">>
v_exec == <<"e","x","e","c">>
v_forking == <<"f","o","r","k","i","n","g">>
v_oneshot == <<"o","n","e","s","h","o","t">>
v_notify == <<"n","o","t","i","f","y">>
v_dbus == <<"d","b","u","s">>
v_no == <<"n","o">>
v_infinity == <<"i","n","f","i","n","i","t","y">>
v_Start == <<"S","t","a","r","t">>
v_SIG == <<"S","I","G">>

systemd_ref_map ==
    << k_Documentation,
       k_Type,
       k_Description,
       k_Wants,
       k_Requires,
       k_Requisite,
       k_BindsTo,
       k_PartOf,
       k_Upholds,
       k_Before,
       k_After,
       k_OnSuccess,
       k_StartLimitBurst,
       k_StartLimitIntervalSec,
       k_Alias,
       k_WantedBy,
       k_RequiredBy,
       k_UpheldBy,
       k_PIDFile,
       k_ExecStart,
       k_ExecStop,
       k_TimeoutStartSec,
       k_TimeoutStopSec,
       k_TimeoutSec,
       k_Restart,
       k_EnvironmentFile,
       k_User,
       k_Group,
       k_WorkingDirectory,
       k_LimitCORE,
       k_LimitDATA,
       k_LimitNOFILE,
       k_UtmpIdentifier,
       k_KillSignal >>

-----------------------------------------------------------------------------
(* Bounds of the checked inputs.                                           *)
MaxLines == 3
MaxTimeLen == 5
MaxLineLen == 4

-----------------------------------------------------------------------------
(* Python's str operations, on character sequences.                        *)

Mu == "\\u03bc"

Digits == {"0","1","2","3","4","5","6","7","8","9"}

Letters ==
    {"a","b","c","d","e","f","g","h","i","j","k","l","m",
     "n","o","p","q","r","s","t","u","v","w","x","y","z",
     "A","B","C","D","E","F","G","H","I","J","K","L","M",
     "N","O","P","Q","R","S","T","U","V","W","X","Y","Z", Mu}

Whitespace == {" ", "\t", "\n", "\r", "\f"}

\* ch.isnumeric(), ch.isalpha() of one character
ch_isnumeric(ch) == ch \in Digits
ch_isalpha(ch) == ch \in Letters

\* str.isnumeric(): at least one character and all of them numeric
isnumeric(str) == Len(str) > 0 /\ \A i \in 1..Len(str) : ch_isnumeric(str[i])

RECURSIVE lstrip(_)
lstrip(str) ==
    IF str # <<>> /\ Head(str) \in Whitespace THEN lstrip(Tail(str)) ELSE str

RECURSIVE rstrip(_)
rstrip(str) ==
    IF str # <<>> /\ str[Len(str)] \in Whitespace
    THEN rstrip(SubSeq(str, 1, Len(str) - 1))
    ELSE str

\* str.strip()
strip(str) == lstrip(rstrip(str))

\* str.split(" "): the pieces between single spaces, empty pieces kept
RECURSIVE split_from(_, _, _)
split_from(str, i, piece) ==
    IF i > Len(str) THEN <<piece>>
    ELSE IF str[i] = " " THEN <<piece>> \o split_from(str, i + 1, <<>>)
    ELSE split_from(str, i + 1, Append(piece, str[i]))

split(str) == split_from(str, 1, <<>>)

\* str.removeprefix(prefix)
removeprefix(str, prefix) ==
    IF Len(str) >= Len(prefix) /\ SubSeq(str, 1, Len(prefix)) = prefix
    THEN SubSeq(str, Len(prefix) + 1, Len(str))
    ELSE str

\* sub in str
contains(str, sub) ==
    \E i \in 1..(Len(str) - Len(sub) + 1) : SubSeq(str, i, i + Len(sub) - 1) = sub

DigitValue(ch) ==
    CASE ch = "0" -> 0 [] ch = "1" -> 1 [] ch = "2" -> 2 [] ch = "3" -> 3
      [] ch = "4" -> 4 [] ch = "5" -> 5 [] ch = "6" -> 6 [] ch = "7" -> 7
      [] ch = "8" -> 8 [] ch = "9" -> 9

DigitChar(d) == <<"0","1","2","3","4","5","6","7","8","9">>[d + 1]

\* the number a string of decimal digits denotes (float(mem) of line 120 on)
RECURSIVE digits_value(_)
digits_value(str) ==
    IF str = <<>> THEN 0
    ELSE 10 * digits_value(SubSeq(str, 1, Len(str) - 1)) + DigitValue(str[Len(str)])

\* str(n) of a non-negative integer, as an f-string formats it
RECURSIVE format_int(_)
format_int(n) ==
    IF n < 10 THEN <<DigitChar(n)>>
    ELSE Append(format_int(n \div 10), DigitChar(n % 10))

-----------------------------------------------------------------------------
(* parse_time, lines 89-140.                                               *)
(*                                                                         *)
(* The returned value is a record: kind "str" is the numeric string        *)
(* returned unchanged by line 91; kind "int" is the integer 0 that sec     *)
(* still holds when no addition was made; kind "float" is a sum, kept      *)
(* exactly as s seconds and us microseconds (the sub-second tags make it   *)
(* fractional); kind "error" is the ValueError that float(mem) raises on   *)
(* an empty mem.  The rounding of Python's floats is not modelled.         *)

NoTime == [kind |-> "none", str |-> <<>>, s |-> 0, us |-> 0]

\* the unit tags of the match at lines 118-139: seconds = magnitude * mul / div
unit_of(tag) ==
    CASE tag \in { <<Mu,"s">>, <<"u","s">>, <<"u","s","e","c">> } ->
            [known |-> TRUE, mul |-> 1, div |-> 1000000]
      [] tag \in { <<"m","s">>, <<"m","s","e","c">> } ->
            [known |-> TRUE, mul |-> 1, div |-> 1000]
      [] tag \in { <<"s">>, <<"s","e","c">>, <<"s","e","c","o","n","d">>,
                   <<"s","e","c","o","n","d","s">> } ->
            [known |-> TRUE, mul |-> 1, div |-> 1]
      [] tag \in { <<"m">>, <<"m","i","n">>, <<"m","i","n","u","t","e">>,
                   <<"m","i","n","u","t","e","s">> } ->
            [known |-> TRUE, mul |-> 60, div |-> 1]
      [] tag \in { <<"h">>, <<"h","r">>, <<"h","o","u","r">>,
                   <<"h","o","u","r","s">> } ->
            [known |-> TRUE, mul |-> 3600, div |-> 1]
      [] tag \in { <<"d">>, <<"d","a","y">>, <<"d","a","y","s">> } ->
            [known |-> TRUE, mul |-> 86400, div |-> 1]
      [] tag \in { <<"w">>, <<"w","e","e","k">>, <<"w","e","e","k","s">> } ->
            [known |-> TRUE, mul |-> 604800, div |-> 1]
      [] tag \in { <<"M">>, <<"m","o","n","t","h">>, <<"m","o","n","t","h","s">> } ->
            [known |-> TRUE, mul |-> 2592000, div |-> 1]
      [] tag \in { <<"y">>, <<"y","e","a","r">>, <<"y","e","a","r","s">> } ->
            [known |-> TRUE, mul |-> 31536000, div |-> 1]
      [] OTHER -> [known |-> FALSE, mul |-> 0, div |-> 1]

\* the state of the scanning loop before its first character, lines 93-96
scan_init == [mem |-> <<>>, what |-> <<>>, letter |-> FALSE, times |-> <<>>]

\* one iteration of the scanning loop, lines 97-115
scan_char(st, ch) ==
    IF ch = " " THEN st
    ELSE IF ch_isnumeric(ch) THEN
        IF ~st.letter
        THEN [st EXCEPT !.mem = Append(@, ch)]
        ELSE [mem    |-> Append(st.mem, ch),
              what   |-> <<>>,
              letter |-> FALSE,
              times  |-> Append(st.times, <<strip(st.what), strip(st.mem)>>)]
    ELSE IF ch_isalpha(ch) THEN [st EXCEPT !.what = Append(@, ch), !.letter = TRUE]
    ELSE st

RECURSIVE scan_from(_, _, _)
scan_from(time, i, st) ==
    IF i > Len(time) THEN st ELSE scan_from(time, i + 1, scan_char(st, time[i]))

\* lines 97-116: the loop, then the last entry
scan_times(time) ==
    LET st == scan_from(time, 1, scan_init)
    IN  [st EXCEPT !.times = Append(@, <<strip(st.what), strip(st.mem)>>)]

\* item[0] and item[1] of an entry of times
item_what(item) == item[1]
item_mem(item) == item[2]

\* sec += float(number) * mul / div, on the exact representation
add_seconds(sec, number, mul, div) ==
    LET whole == (number * mul) \div div
        micro == ((number * mul) % div) * (1000000 \div div)
        us    == sec.us + micro
    IN  [kind |-> "float", str |-> <<>>,
         s |-> sec.s + whole + us \div 1000000, us |-> us % 1000000]

\* the magnitude a resolved item is given: float(mem), lines 120-137
item_magnitude(item, mem) == mem

\* one iteration of the resolving loop, lines 117-139
resolve_item(sec, item, mem) ==
    LET unit == unit_of(item_what(item))
        mag  == item_magnitude(item, mem)
    IN  IF sec.kind = "error" THEN sec
        ELSE IF ~unit.known THEN sec
        ELSE IF mag = <<>> THEN [kind |-> "error", str |-> <<>>, s |-> 0, us |-> 0]
        ELSE add_seconds(sec, digits_value(mag), unit.mul, unit.div)

RECURSIVE resolve_from(_, _, _, _)
resolve_from(times, i, mem, sec) ==
    IF i > Len(times) THEN sec
    ELSE resolve_from(times, i + 1, mem, resolve_item(sec, times[i], mem))

parse_time(time) ==
    IF isnumeric(time)
    THEN [kind |-> "str", str |-> time, s |-> 0, us |-> 0]
    ELSE LET st == scan_times(time)
         IN  resolve_from(st.times, 1, st.mem,
                          [kind |-> "int", str |-> <<>>, s |-> 0, us |-> 0])

\* f'{TIME}' of a float: repr() of the exact value, for values below 1e16
frac_digits(us) ==
    LET six == <<DigitChar(us \div 100000), DigitChar((us \div 10000) % 10),
                 DigitChar((us \div 1000) % 10), DigitChar((us \div 100) % 10),
                 DigitChar((us \div 10) % 10), DigitChar(us % 10)>>
        last == CHOOSE i \in 1..6 : six[i] # "0" /\ \A j \in (i + 1)..6 : six[j] = "0"
    IN  SubSeq(six, 1, last)

format_float(sec) ==
    IF sec.us = 0 THEN format_int(sec.s) \o <<".", "0">>
    ELSE IF sec.s = 0 /\ sec.us < 10 THEN <<DigitChar(sec.us), "e", "-", "0", "6">>
    ELSE IF sec.s = 0 /\ sec.us < 100 THEN
        <<DigitChar(sec.us \div 10)>>
        \o (IF sec.us % 10 = 0 THEN <<>> ELSE <<".", DigitChar(sec.us % 10)>>)
        \o <<"e", "-", "0", "5">>
    ELSE format_int(sec.s) \o <<".">> \o frac_digits(sec.us)

\* f'{...}' of what parse_time returned, or of the integer 0 of line 252
format_time(TIME) ==
    CASE TIME.kind = "str"   -> TIME.str
      [] TIME.kind = "int"   -> format_int(TIME.s)
      [] TIME.kind = "float" -> format_float(TIME)

-----------------------------------------------------------------------------
(* The unit file reader, lines 154-168.                                    *)

\* the scan of one line for "=", lines 161-166
RECURSIVE scan_line(_, _, _, _)
scan_line(line, i, name, memory) ==
    IF i > Len(line) THEN [name |-> name, memory |-> memory]
    ELSE IF line[i] = "=" THEN scan_line(line, i + 1, memory, <<>>)
    ELSE scan_line(line, i + 1, name, Append(memory, line[i]))

\* what one line adds to comments and to values, lines 156-168
read_line(line) ==
    IF line[1] = "#" \/ line[1] = ";"
    THEN [comments |-> << <<"In systemd service unit comment: ">> \o line >>,
          values   |-> <<>>]
    ELSE IF line[1] # "["
    THEN LET r == scan_line(line, 1, <<>>, <<>>)
         IN  [comments |-> <<>>,
              values   |-> IF r.name # <<>>
                           THEN << <<strip(r.name), strip(r.memory)>> >>
                           ELSE <<>>]
    ELSE [comments |-> <<>>, values |-> <<>>]

-----------------------------------------------------------------------------
(* The translation rules, lines 180-317.  A rule yields the write() calls  *)
(* on target, the alias files written, the unguarded prints, the two flags *)
(* and how the iteration ends: "next" (the loop goes on), "exit"           *)
(* (os._exit) or "error" (an uncaught exception).                          *)

\* args.unitfile: the path given on the command line
unitfile == <<"u">>

effect(lines, is_pidfile, has_type) ==
    [lines |-> lines, files |-> <<>>, prints |-> <<>>,
     is_pidfile |-> is_pidfile, has_type |-> has_type, outcome |-> "next"]

\* one write of f'<text>{value}\n'
line_of(text, value) == <<text>> \o value \o <<"\n">>

\* for dep in val[1].split(" "): target.write(f'<text>{dep}\n')
per_token(text, value) ==
    LET deps == split(value)
    IN  [i \in 1..Len(deps) |-> line_of(text, deps[i])]

\* dbus_case without the os._exit(1) of line 205: the loop goes on
dbus_case_no_exit(is_pidfile, has_type) ==
    [effect(<<>>, is_pidfile, TRUE) EXCEPT
        !.prints = << <<"'type=dbus' isn't supported by dinit!">> >>]

\* the dbus case of the Type rule, lines 203-205: print, then os._exit(1)
dbus_case(is_pidfile, has_type) ==
    [effect(<<>>, is_pidfile, has_type) EXCEPT
        !.prints = << <<"'type=dbus' isn't supported by dinit!">> >>,
        !.outcome = "exit"]

\* the Type rule, lines 189-206
type_rule(value, is_pidfile, has_type) ==
    CASE value = v_simple \/ value = v_exec ->
            effect(<< <<"type = process\n">> >>, is_pidfile, TRUE)
      [] value = v_forking ->
            effect(<< <<"type = bgprocess\n">> >>, 1, TRUE)
      [] value = v_oneshot ->
            effect(<< <<"type = scripted\n">> >>, is_pidfile, TRUE)
      [] value = v_notify ->
            effect(<< <<"type = process\n">> >>, is_pidfile, TRUE)
      [] value = v_dbus -> dbus_case(is_pidfile, has_type)
      [] OTHER -> effect(<<>>, is_pidfile, TRUE)

\* the Alias rule, lines 228-232: open() of an empty name raises
RECURSIVE alias_files(_, _)
alias_files(names, i) ==
    IF i > Len(names) THEN [files |-> <<>>, outcome |-> "next"]
    ELSE IF names[i] = <<>> THEN [files |-> <<>>, outcome |-> "error"]
    ELSE LET rest == alias_files(names, i + 1)
         IN  [files   |-> << [name    |-> names[i],
                              content |-> <<"depends-on = ">> \o unitfile
                                          \o <<".dinit\n">>] >> \o rest.files,
              outcome |-> rest.outcome]

alias_rule(value, is_pidfile, has_type) ==
    LET r == alias_files(split(value), 1)
    IN  [effect(<<>>, is_pidfile, has_type) EXCEPT
            !.files   = r.files,
            !.outcome = r.outcome,
            !.prints  = IF r.outcome = "next"
                        THEN << <<"Service unit has \"Alias\", Creating another service for convering that">> >>
                        ELSE <<>>]

\* the OnSuccess rule, lines 233-235: the whole value, once per token
onsuccess_rule(value) ==
    [i \in 1..Len(split(value)) |-> line_of("chain-to = ", value)]

\* the three timeout rules and StartLimitIntervalSec, lines 238-239, 250-260
timeout_rule(key, value, is_pidfile, has_type) ==
    LET TIME == IF key # k_StartLimitIntervalSec /\ value = v_infinity
                THEN [kind |-> "int", str |-> <<>>, s |-> 0, us |-> 0]
                ELSE parse_time(value)
    IN  IF TIME.kind = "error"
        THEN [effect(<<>>, is_pidfile, has_type) EXCEPT !.outcome = "error"]
        ELSE LET T == format_time(TIME)
             IN  effect(
                    IF key = k_StartLimitIntervalSec
                    THEN << line_of("restart-limit-interval = ", T) >>
                    ELSE IF key = k_TimeoutSec
                    THEN << <<"start-timeout = ">> \o T
                            \o <<"\nstop-timeout = ">> \o T \o <<"\n">> >>
                    ELSE IF contains(key, v_Start)
                    THEN << line_of("start-timeout = ", T) >>
                    ELSE << line_of("stop-timeout = ", T) >>,
                    is_pidfile, has_type)

\* the Group looked up by the User rule, lines 262-265: the last one wins
RECURSIVE run_as(_, _, _, _)
run_as(user, vals, i, STR) ==
    IF i > Len(vals) THEN STR
    ELSE IF vals[i][1] = k_Group
    THEN run_as(user, vals, i + 1, user \o <<":">> \o vals[i][2])
    ELSE run_as(user, vals, i + 1, STR)

\* user_rule without the lookup of lines 263-265 (the Group is ignored)
user_rule_no_group(value, vals) == << line_of("run-as = ", value) >>

user_rule(value, vals) == << line_of("run-as = ", run_as(value, vals, 1, value)) >>

\* signal.Signals of the platform (Linux), iterated at line 305
Signals ==
    << [name |-> <<"S","I","G","H","U","P">>, value |-> 1],
       [name |-> <<"S","I","G","I","N","T">>, value |-> 2],
       [name |-> <<"S","I","G","Q","U","I","T">>, value |-> 3],
       [name |-> <<"S","I","G","I","L","L">>, value |-> 4],
       [name |-> <<"S","I","G","T","R","A","P">>, value |-> 5],
       [name |-> <<"S","I","G","A","B","R","T">>, value |-> 6],
       [name |-> <<"S","I","G","B","U","S">>, value |-> 7],
       [name |-> <<"S","I","G","F","P","E">>, value |-> 8],
       [name |-> <<"S","I","G","K","I","L","L">>, value |-> 9],
       [name |-> <<"S","I","G","U","S","R","1">>, value |-> 10],
       [name |-> <<"S","I","G","S","E","G","V">>, value |-> 11],
       [name |-> <<"S","I","G","U","S","R","2">>, value |-> 12],
       [name |-> <<"S","I","G","P","I","P","E">>, value |-> 13],
       [name |-> <<"S","I","G","A","L","R","M">>, value |-> 14],
       [name |-> <<"S","I","G","T","E","R","M">>, value |-> 15],
       [name |-> <<"S","I","G","S","T","K","F","L","T">>, value |-> 16],
       [name |-> <<"S","I","G","C","H","L","D">>, value |-> 17],
       [name |-> <<"S","I","G","C","O","N","T">>, value |-> 18],
       [name |-> <<"S","I","G","S","T","O","P">>, value |-> 19],
       [name |-> <<"S","I","G","T","S","T","P">>, value |-> 20],
       [name |-> <<"S","I","G","T","T","I","N">>, value |-> 21],
       [name |-> <<"S","I","G","T","T","O","U">>, value |-> 22],
       [name |-> <<"S","I","G","U","R","G">>, value |-> 23],
       [name |-> <<"S","I","G","X","C","P","U">>, value |-> 24],
       [name |-> <<"S","I","G","X","F","S","Z">>, value |-> 25],
       [name |-> <<"S","I","G","V","T","A","L","R","M">>, value |-> 26],
       [name |-> <<"S","I","G","P","R","O","F">>, value |-> 27],
       [name |-> <<"S","I","G","W","I","N","C","H">>, value |-> 28],
       [name |-> <<"S","I","G","I","O">>, value |-> 29],
       [name |-> <<"S","I","G","P","W","R">>, value |-> 30],
       [name |-> <<"S","I","G","S","Y","S">>, value |-> 31],
       [name |-> <<"S","I","G","R","T","M","I","N">>, value |-> 34],
       [name |-> <<"S","I","G","R","T","M","A","X">>, value |-> 64] >>

\* the names the match at lines 283-302 keeps as they are
dinit_signals ==
    { <<"H","U","P">>, <<"I","N","T">>, <<"Q","U","I","T">>, <<"K","I","L","L">>,
      <<"U","S","R","1">>, <<"U","S","R","2">>, <<"T","E","R","M">>,
      <<"C","O","N","T">>, <<"S","T","O","P">>, <<"I","N","F","O">> }

\* the name the loop at lines 305-307 compares with knownsig.name
signal_lookup_name(value) == value

\* the loop at lines 305-307: SIG after it, "" when no name matched
RECURSIVE lookup_signal(_, _, _)
lookup_signal(name, i, SIG) ==
    IF i > Len(Signals) THEN SIG
    ELSE IF name = Signals[i].name
    THEN lookup_signal(name, i + 1, format_int(Signals[i].value))
    ELSE lookup_signal(name, i + 1, SIG)

\* SIG at line 308, as the text f'{SIG}' gives; "" is the unresolved signal
resolve_signal(value) ==
    LET name == removeprefix(value, v_SIG)
    IN  IF name \in dinit_signals THEN name
        ELSE lookup_signal(signal_lookup_name(value), 1, <<>>)

\* the KillSignal rule, lines 280-315
killsignal_rule(value) ==
    LET SIG == resolve_signal(value)
    IN  IF SIG # <<>> THEN << line_of("term-signal = ", SIG) >> ELSE <<>>

\* val[0] in systemd_ref_map, line 181
in_ref_map(key) == \E i \in 1..Len(systemd_ref_map) : systemd_ref_map[i] = key

\* skip_unknown that also notes the key in the output
skip_unknown_noted(key, is_pidfile, has_type) ==
    effect(<< line_of("# Unknown/Unsupported key: ", key) >>, is_pidfile, has_type)

\* lines 182-183: the pair of an unknown key is skipped
skip_unknown(key, is_pidfile, has_type) == effect(<<>>, is_pidfile, has_type)

\* the keys of the case at line 211
waits_for_keys == {k_Wants, k_UpHolds}

\* one iteration of the loop at line 180 on the pair val, vals being values
translate(val, vals, is_pidfile, has_type) ==
    LET key == val[1]
        value == val[2]
        same(lines) == effect(lines, is_pidfile, has_type)
    IN  IF ~in_ref_map(key) THEN skip_unknown(key, is_pidfile, has_type)
        ELSE CASE key = k_Documentation -> same(<<>>)
          [] key = k_Description -> same(<< line_of("# Description: ", value) >>)
          [] key = k_Type -> type_rule(value, is_pidfile, has_type)
          [] key = k_ExecStart -> same(<< line_of("command = ", value) >>)
          [] key = k_ExecStop -> same(<< line_of("stop-command = ", value) >>)
          [] key \in waits_for_keys -> same(per_token("waits-for = ", value))
          [] key \in {k_Requires, k_Requisite, k_BindsTo, k_PartOf} ->
                same(per_token("depends-on = ", value))
          [] key \in {k_WantedBy, k_RequiredBy, k_UpheldBy} ->
                same(per_token("depends-ms = ", value))
          [] key = k_Before -> same(per_token("before = ", value))
          [] key = k_After -> same(per_token("after = ", value))
          [] key = k_Alias -> alias_rule(value, is_pidfile, has_type)
          [] key = k_OnSuccess -> same(onsuccess_rule(value))
          [] key = k_StartLimitBurst ->
                same(<< line_of("restart-limit-count = ", value) >>)
          [] key = k_StartLimitIntervalSec ->
                timeout_rule(key, value, is_pidfile, has_type)
          [] key = k_PIDFile -> effect(<< line_of("pid-file = ", value) >>, 2, has_type)
          [] key = k_EnvironmentFile -> same(<< line_of("env-file = ", value) >>)
          [] key = k_Restart ->
                same(IF value = v_no THEN << <<"restart = no\n">> >>
                                     ELSE << <<"restart = yes\n">> >>)
          [] key \in {k_TimeoutStartSec, k_TimeoutStopSec, k_TimeoutSec} ->
                timeout_rule(key, value, is_pidfile, has_type)
          [] key = k_User -> same(user_rule(value, vals))
          [] key = k_Group -> same(<<>>)
          [] key = k_WorkingDirectory -> same(<< line_of("working-dir = ", value) >>)
          [] key = k_LimitCORE -> same(<< line_of("rlimit-core = ", value) >>)
          [] key = k_LimitNOFILE -> same(<< line_of("rlimit-nofile = ", value) >>)
          [] key = k_LimitDATA -> same(<< line_of("rlimit-data = ", value) >>)
          [] key = k_UtmpIdentifier -> same(<< line_of("inittab-line = ", value) >>)
          [] key = k_KillSignal -> same(killsignal_rule(value))
          [] OTHER -> [same(<<>>) EXCEPT
                          !.prints = << <<"Not implemented key: ">> \o key >>]

\* end_of_pass with lines 321-322 moved before lines 319-320
end_of_pass_comments_first(cmts, is_pidfile, has_type) ==
    cmts
    \o (IF ~has_type THEN << <<"type = process\n">> >> ELSE <<>>)
    \o (IF is_pidfile = 1
        THEN << <<"# Service is \"forking\" type but doesn't have any pid-file!\n">> >>
        ELSE <<>>)

\* what lines 319-325 write after the loop
end_of_pass(cmts, is_pidfile, has_type) ==
    (IF ~has_type THEN << <<"type = process\n">> >> ELSE <<>>)
    \o cmts
    \o (IF is_pidfile = 1
        THEN << <<"# Service is \"forking\" type but doesn't have any pid-file!\n">> >>
        ELSE <<>>)

\* the prints of lines 327-329
completion ==
    << <<"\nConverting service unit to dinit service is completed.">>,
       <<"It's HIGHLY recommended to modify this generated file to fit your needs">>,
       <<"Done!">> >>

-----------------------------------------------------------------------------
(* The program as a state machine.                                         *)

VARIABLES
    file,        \* the lines of args.unitfile, each with its end of line
    lineno,      \* the line the reader loop is at
    comments,    \* line 78
    values,      \* line 81
    idx,         \* the pair the translation loop is at
    target,      \* the write() calls made on the .dinit file (what the file
                 \* holds once it is closed; os._exit skips the flush)
    aliases,     \* the alias files written, in order
    is_pidfile,  \* line 176
    has_type,    \* line 178
    stdout,      \* the unguarded print() calls made
    pc,          \* "read", "translate", "done", "exit", "error";
                 \* "call", "returned" for parse_time on its own
    time,        \* the argument of parse_time on its own
    TIME         \* what it returned

vars == <<file, lineno, comments, values, idx, target, aliases, is_pidfile,
          has_type, stdout, pc, time, TIME>>

\* lines 78, 81: nothing read, nothing written
Blank ==
    /\ lineno = 1
    /\ comments = <<>>
    /\ values = <<>>
    /\ idx = 1
    /\ target = <<>>
    /\ aliases = <<>>
    /\ is_pidfile = 0
    /\ has_type = FALSE
    /\ stdout = <<>>
    /\ TIME = NoTime

\* the state before the first line is read, with the unit file f
Start(f) ==
    /\ file = f
    /\ pc = "read"
    /\ time = <<>>
    /\ Blank

\* one iteration of the loop at line 155
ReadLine ==
    /\ pc = "read"
    /\ lineno <= Len(file)
    /\ LET r == read_line(file[lineno])
       IN  /\ comments' = comments \o r.comments
           /\ values' = values \o r.values
    /\ lineno' = lineno + 1
    /\ UNCHANGED <<file, idx, target, aliases, is_pidfile, has_type, stdout, pc,
                   time, TIME>>

\* the end of the reader loop and lines 176-179
OpenTarget ==
    /\ pc = "read"
    /\ lineno > Len(file)
    /\ is_pidfile' = 0
    /\ has_type' = FALSE
    /\ target' = <<>>
    /\ pc' = "translate"
    /\ UNCHANGED <<file, lineno, comments, values, idx, aliases, stdout, time, TIME>>

\* one iteration of the loop at line 180
TranslatePair ==
    /\ pc = "translate"
    /\ idx <= Len(values)
    /\ LET e == translate(values[idx], values, is_pidfile, has_type)
       IN  /\ target' = target \o e.lines
           /\ aliases' = aliases \o e.files
           /\ stdout' = stdout \o e.prints
           /\ is_pidfile' = e.is_pidfile
           /\ has_type' = e.has_type
           /\ pc' = IF e.outcome = "next" THEN "translate" ELSE e.outcome
           /\ idx' = IF e.outcome = "next" THEN idx + 1 ELSE idx
    /\ UNCHANGED <<file, lineno, comments, values, time, TIME>>

\* lines 319-329: the end of the pass and the completion message
EndOfPass ==
    /\ pc = "translate"
    /\ idx > Len(values)
    /\ target' = target \o end_of_pass(comments, is_pidfile, has_type)
    /\ stdout' = stdout \o completion
    /\ pc' = "done"
    /\ UNCHANGED <<file, lineno, comments, values, idx, aliases, is_pidfile,
                   has_type, time, TIME>>

Next == ReadLine \/ OpenTarget \/ TranslatePair \/ EndOfPass

-----------------------------------------------------------------------------
(* The unit files the program is run on.                                   *)

\* the source line "key=value" with its end of line
Assign(key, value) == key \o <<"=">> \o value \o <<"\n">>

c_one == <<"#", " ", "1", "\n">>
c_two == <<";", "2", "\n">>
l_section == <<"[", "U", "n", "i", "t", "]", "\n">>
k_type == <<"t", "y", "p", "e">>
v_idle == <<"i", "d", "l", "e">>
v_pid == <<"/", "x", ".", "p", "i", "d">>
v_alice == <<"a", "l">>
v_staff == <<"s", "t">>
v_ab == <<"a", " ", "b">>
v_x == <<"x">>

\* comments, a section header, Type, PIDFile, Alias, Wants, User, Group,
\* Description and a key that is not in the table (it differs from Type in case)
LinePool ==
    { c_one, c_two, l_section,
      Assign(k_Type, v_forking), Assign(k_Type, v_dbus), Assign(k_Type, v_idle),
      Assign(k_Type, v_oneshot), Assign(k_Type, v_simple), Assign(k_PIDFile, v_pid),
      Assign(k_Alias, v_x), Assign(k_Wants, v_ab),
      Assign(k_User, v_alice), Assign(k_Group, v_staff),
      Assign(k_type, v_forking), Assign(k_Description, v_ab) }

\* every sequence of at most n elements of S
SeqsUpTo(S, n) == UNION { [1..m -> S] : m \in 0..n }

Init == \E f \in SeqsUpTo(LinePool, MaxLines) : Start(f)

Spec == Init /\ [][Next]_vars

\* the dependency, signal, alias and timeout keys
v_TERM == <<"T","E","R","M">>
v_WINCH == <<"W","I","N","C","H">>
v_BOGUS == <<"B","O","G","U","S">>
v_1h30m == <<"1","h","3","0","m">>
v_h == <<"h">>

KeysPool ==
    { Assign(k_Wants, v_ab), Assign(k_UpHolds, v_ab), Assign(k_Upholds, v_ab),
      Assign(k_KillSignal, v_TERM), Assign(k_KillSignal, v_SIG \o v_TERM),
      Assign(k_KillSignal, v_WINCH), Assign(k_KillSignal, v_SIG \o v_WINCH),
      Assign(k_KillSignal, v_BOGUS),
      Assign(k_Alias, v_x), Assign(k_Alias, <<>>),
      Assign(k_TimeoutSec, v_1h30m), Assign(k_TimeoutStartSec, v_h),
      Assign(k_TimeoutStopSec, v_infinity), Assign(k_OnSuccess, v_ab) }

MaxKeyLines == 2

InitKeys == \E f \in SeqsUpTo(KeysPool, MaxKeyLines) : Start(f)

SpecKeys == InitKeys /\ [][Next]_vars

\* one line, made of any characters of LineAlphabet, with or without its end
LineAlphabet == {"k", "v", "=", " ", "#", "["}

InitReader ==
    \E body \in SeqsUpTo(LineAlphabet, MaxLineLen), eol \in {<<>>, <<"\n">>} :
        /\ body \o eol # <<>>
        /\ Start(<< body \o eol >>)

SpecReader == InitReader /\ [][Next]_vars

-----------------------------------------------------------------------------
(* parse_time on its own.                                                  *)

TimeAlphabet == {"0", "1", "3", "h", "m", "s", " "}

InitTime ==
    \E t \in SeqsUpTo(TimeAlphabet, MaxTimeLen) :
        /\ file = <<>>
        /\ pc = "call"
        /\ time = t
        /\ Blank

\* line 254: TIME = parse_time(val[1])
ParseTimeCall ==
    /\ pc = "call"
    /\ TIME' = parse_time(time)
    /\ pc' = "returned"
    /\ UNCHANGED <<file, lineno, comments, values, idx, target, aliases,
                   is_pidfile, has_type, stdout, time>>

NextTime == ParseTimeCall

SpecTime == InitTime /\ [][NextTime]_vars

-----------------------------------------------------------------------------
(* Properties.                                                             *)

Has(seq, x) == \E i \in 1..Len(seq) : seq[i] = x

KeyAt(i) == values[i][1]
ValueAt(i) == values[i][2]
PairsOf(key) == { i \in 1..Len(values) : KeyAt(i) = key }

MissingPidFile == <<"# Service is \"forking\" type but doesn't have any pid-file!\n">>
DefaultType == <<"type = process\n">>

IsTypeLine(w) ==
    w \in { <<"type = process\n">>, <<"type = bgprocess\n">>, <<"type = scripted\n">> }
IsSourceComment(w) == w[1] = "In systemd service unit comment: "
IsRunAs(w) == w[1] = "run-as = "
IsWaitsFor(w) == w[1] = "waits-for = "
IsTermSignal(w) == w[1] = "term-signal = "

\* C1: a completed run on pairs holding Type=forking and a PIDFile, in either
\* order, writes 'type = bgprocess' and the 'pid-file = <value>' line, does not
\* write the missing pid-file warning and does not end in the state "forking
\* without pid-file".
C1_ForkingWithPidFile ==
    (pc = "done" /\ Has(values, <<k_Type, v_forking>>) /\ PairsOf(k_PIDFile) # {})
    => /\ Has(target, <<"type = bgprocess\n">>)
       /\ \A i \in PairsOf(k_PIDFile) : Has(target, line_of("pid-file = ", ValueAt(i)))
       /\ ~Has(target, MissingPidFile)
       /\ is_pidfile # 1

\* the factor of a tag in the table of C2
claim_factor(tag) ==
    CASE tag = <<"s">> -> 1 [] tag = <<"m">> -> 60 [] tag = <<"h">> -> 3600
      [] tag = <<"d">> -> 86400 [] tag = <<"w">> -> 604800
      [] tag = <<"M">> -> 2592000 [] tag = <<"y">> -> 31536000 [] OTHER -> 0

\* The sum C2 states for the duration str, read from position i on: phase is
\* "mag" in a magnitude, "tag" in a tag, "gap" in the spaces after a tag.  ok
\* is FALSE when str is not a sequence of (magnitude, tag of the table)
\* segments with spaces between segments only.
RECURSIVE claim_sum(_, _, _, _, _, _)
claim_sum(str, i, phase, mag, tag, total) ==
    LET closed == total + digits_value(mag) * claim_factor(tag)
        bad == [ok |-> FALSE, total |-> 0]
    IN  IF i > Len(str)
        THEN IF phase = "tag" /\ claim_factor(tag) # 0
             THEN [ok |-> TRUE, total |-> closed] ELSE bad
        ELSE IF ch_isnumeric(str[i])
        THEN IF phase = "mag"
             THEN claim_sum(str, i + 1, "mag", Append(mag, str[i]), tag, total)
             ELSE IF claim_factor(tag) # 0
             THEN claim_sum(str, i + 1, "mag", <<str[i]>>, <<>>, closed)
             ELSE bad
        ELSE IF ch_isalpha(str[i])
        THEN IF phase = "gap" \/ mag = <<>> THEN bad
             ELSE claim_sum(str, i + 1, "tag", mag, Append(tag, str[i]), total)
        ELSE IF str[i] = " " /\ phase # "mag"
        THEN claim_sum(str, i + 1, "gap", mag, tag, total)
        ELSE bad

\* C2: for a duration made of (magnitude, tag) segments parse_time returns the
\* sum over the segments of the segment's own magnitude times its tag's factor.
C2_SumOfSegments ==
    LET claimed == claim_sum(time, 1, "mag", <<>>, <<>>, 0)
    IN  (pc = "returned" /\ claimed.ok)
        => TIME.kind = "float" /\ TIME.us = 0 /\ TIME.s = claimed.total

\* the first "=" of a line that has one
first_eq(line) ==
    CHOOSE i \in 1..Len(line) : line[i] = "=" /\ \A j \in 1..(i - 1) : line[j] # "="

\* C3: a line that is no comment and no section header and has a "=" after a
\* non-empty key gives the pair (trimmed text before the first "=", trimmed
\* text after the first "=").
C3_FirstEquals ==
    LET line == file[1]
        at == first_eq(line)
    IN  (pc = "read" /\ lineno = 2 /\ line[1] \notin {"#", ";", "["}
         /\ Has(line, "=") /\ strip(SubSeq(line, 1, at - 1)) # <<>>)
        => values = << << strip(SubSeq(line, 1, at - 1)),
                          strip(SubSeq(line, at + 1, Len(line))) >> >>

\* the waits-for lines C4 states for the pairs from i on
RECURSIVE claim_waits_for(_)
claim_waits_for(i) ==
    IF i > Len(values) THEN <<>>
    ELSE (IF KeyAt(i) \in {k_Wants, k_UpHolds}
          THEN per_token("waits-for = ", ValueAt(i)) ELSE <<>>)
         \o claim_waits_for(i + 1)

\* C4: a Wants or UpHolds pair writes one 'waits-for = <token>' line per
\* token, in token order.
C4_WaitsFor ==
    pc = "done" => SelectSeq(target, IsWaitsFor) = claim_waits_for(1)

\* the term-signal line C5 states for the signal name N
claim_signal(N) ==
    IF N \in dinit_signals THEN << line_of("term-signal = ", N) >>
    ELSE IF \E i \in 1..Len(Signals) : Signals[i].name = v_SIG \o N
    THEN LET i == CHOOSE i \in 1..Len(Signals) : Signals[i].name = v_SIG \o N
         IN  << line_of("term-signal = ", format_int(Signals[i].value)) >>
    ELSE <<>>

RECURSIVE claim_term_signal(_)
claim_term_signal(i) ==
    IF i > Len(values) THEN <<>>
    ELSE (IF KeyAt(i) = k_KillSignal
          THEN claim_signal(removeprefix(ValueAt(i), v_SIG)) ELSE <<>>)
         \o claim_term_signal(i + 1)

\* C5: KillSignal=N and KillSignal=SIGN write the same: the name N when it is
\* one of the fixed names, the number of the platform's signal N otherwise,
\* nothing when N is no signal.
C5_KillSignal ==
    pc = "done" => SelectSeq(target, IsTermSignal) = claim_term_signal(1)

\* a completed run on pairs with exactly one User and exactly one Group
C6_OneUserOneGroup ==
    pc = "done" /\ Cardinality(PairsOf(k_User)) = 1 /\ Cardinality(PairsOf(k_Group)) = 1

C6_State ==
    C6_OneUserOneGroup
    => LET u == ValueAt(CHOOSE i \in PairsOf(k_User) : TRUE)
           g == ValueAt(CHOOSE i \in PairsOf(k_Group) : TRUE)
       IN  SelectSeq(target, IsRunAs) = << line_of("run-as = ", u \o <<":">> \o g) >>

\* the step on a Group pair
C6_GroupStep ==
    (pc = "translate" /\ idx <= Len(values) /\ KeyAt(idx) = k_Group)
    => target' = target /\ aliases' = aliases

\* C6: a completed run on pairs with exactly one User=<u> and exactly one
\* Group=<g> writes exactly one run-as line, 'run-as = <u>:<g>', whichever of
\* the two comes first; the step that translates the Group pair writes nothing.
C6_RunAs == []C6_State /\ [][C6_GroupStep]_vars

\* C6 witness: a completed run where the only Group pair comes after the only
\* User pair.
C6_Witness ==
    /\ C6_OneUserOneGroup
    /\ \E i \in PairsOf(k_User), j \in PairsOf(k_Group) : i < j

\* the lines of target that Type pairs before the pair at idx wrote as
\* 'type = process'
ProcessTypesBefore(n) ==
    { i \in 1..(n - 1) : KeyAt(i) = k_Type /\ ValueAt(i) \in {v_simple, v_exec, v_notify} }

Count(seq, x) == Cardinality({ i \in 1..Len(seq) : seq[i] = x })

\* the pass is never past a Type=dbus pair, and what the failure state holds
C7_State ==
    /\ \A i \in 1..Len(values) :
          (pc \in {"translate", "done", "exit", "error"} /\ values[i] = <<k_Type, v_dbus>>)
          => idx <= i
    /\ pc = "exit"
       => /\ values[idx] = <<k_Type, v_dbus>>
          /\ Count(target, DefaultType) = Cardinality(ProcessTypesBefore(idx))
          /\ \A i \in 1..Len(target) : ~IsSourceComment(target[i])
          /\ ~Has(target, MissingPidFile)
          /\ \A i \in 1..Len(stdout) : ~Has(completion, stdout[i])
          /\ Len(aliases) <= Cardinality({ i \in 1..(idx - 1) : KeyAt(i) = k_Alias })
          /\ ~ENABLED Next

\* C7: the translation never goes past a Type=dbus pair; the run is then in
\* the failure state, where no step is possible and target holds no default
\* type line, no source comment and no missing pid-file warning, no alias file
\* of a later pair is written and the completion message is not printed.
C7_DbusEndsRun == []C7_State /\ [][pc # "exit"]_vars

\* C7 witness: the run ended at a Type=dbus pair with a pair left after it and
\* the state "forking without pid-file" set.
C7_Witness == pc = "exit" /\ idx < Len(values) /\ is_pidfile = 1

\* the lines the pairs from i on write, in pair order
RECURSIVE pair_lines(_)
pair_lines(i) ==
    IF i > Len(values) THEN <<>>
    ELSE translate(values[i], values, 0, FALSE).lines \o pair_lines(i + 1)

\* the comment lines of the source, in source order, each with its annotation
RECURSIVE source_comments(_)
source_comments(i) ==
    IF i > Len(file) THEN <<>>
    ELSE (IF file[i][1] \in {"#", ";"}
          THEN << <<"In systemd service unit comment: ">> \o file[i] >> ELSE <<>>)
         \o source_comments(i + 1)

\* C8: in a completed run target is the lines of the pairs in pair order, then
\* the default type line exactly when there is no Type pair, then the source
\* comments in source order, then the missing pid-file warning when the state
\* is "forking without pid-file"; no pair writes a source comment line.
C8_OutputOrder ==
    pc = "done"
    => /\ target = pair_lines(1)
                   \o (IF PairsOf(k_Type) = {} THEN <<DefaultType>> ELSE <<>>)
                   \o source_comments(1)
                   \o (IF is_pidfile = 1 THEN <<MissingPidFile>> ELSE <<>>)
       /\ \A i \in 1..Len(pair_lines(1)) : ~IsSourceComment(pair_lines(1)[i])

\* C8 witness: a completed run whose source starts with a comment, has a
\* second comment and a pair that writes a line, and ends with the warning.
C8_Witness ==
    /\ pc = "done"
    /\ file # <<>>
    /\ file[1][1] \in {"#", ";"}
    /\ Len(source_comments(1)) >= 2
    /\ pair_lines(1) # <<>>
    /\ is_pidfile = 1

\* values without its i-th pair
WithoutPair(i) == SubSeq(values, 1, i - 1) \o SubSeq(values, i + 1, Len(values))

\* the translation pass on the pairs vals from i on, as a function of the pairs
RECURSIVE pass_from(_, _, _)
pass_from(vals, i, st) ==
    IF st.pc # "translate" \/ i > Len(vals) THEN st
    ELSE LET e == translate(vals[i], vals, st.is_pidfile, st.has_type)
         IN  pass_from(vals, i + 1,
                 [target     |-> st.target \o e.lines,
                  aliases    |-> st.aliases \o e.files,
                  is_pidfile |-> e.is_pidfile,
                  has_type   |-> e.has_type,
                  pc         |-> IF e.outcome = "next" THEN "translate" ELSE e.outcome])

pass_of(vals) ==
    pass_from(vals, 1, [target |-> <<>>, aliases |-> <<>>, is_pidfile |-> 0,
                        has_type |-> FALSE, pc |-> "translate"])

UnknownPairs == { i \in 1..Len(values) : ~in_ref_map(KeyAt(i)) }

\* a completed run ends as the run without a pair of unknown key ends
C9_State ==
    pc = "done"
    => \A i \in UnknownPairs :
          LET o == pass_of(WithoutPair(i))
          IN  /\ o.pc = "translate"
              /\ target = o.target \o end_of_pass(comments, o.is_pidfile, o.has_type)
              /\ aliases = o.aliases
              /\ is_pidfile = o.is_pidfile
              /\ has_type = o.has_type

\* the step on a pair of unknown key
C9_Step ==
    (pc = "translate" /\ idx <= Len(values) /\ idx \in UnknownPairs)
    => /\ target' = target
       /\ aliases' = aliases
       /\ is_pidfile' = is_pidfile
       /\ has_type' = has_type
       /\ idx' = idx + 1
       /\ pc' = "translate"

\* C9: the step that meets a pair whose key is not in the table changes
\* neither target nor the alias files nor the two flags and goes on to the
\* next pair; a completed run ends as the run without that pair ends.
C9_UnknownKeySkipped == []C9_State /\ [][C9_Step]_vars

\* C9 witness: a completed run with a pair of unknown key between two pairs
\* of known keys, the first of which wrote a line.
C9_Witness ==
    /\ pc = "done"
    /\ \E i \in UnknownPairs :
          /\ 1 < i /\ i < Len(values)
          /\ in_ref_map(KeyAt(i - 1)) /\ in_ref_map(KeyAt(i + 1))
    /\ pair_lines(1) # <<>>

\* C10: the output of a completed run holds at least one 'type = ...' line.
C10_TypeLine == pc = "done" => \E i \in 1..Len(target) : IsTypeLine(target[i])
=============================================================================
